---- MODULE Spec2Model ----
(***************************************************************************)
(* Asteroids: the Game component (src/src/types/game.ts) driving the       *)
(* simulation core (src/unnamed/part_000: createShip, createAsteroid,      *)
(* updateGameObjects, checkCollision, handleCollisions).                   *)
(*                                                                         *)
(* Numbers.  JavaScript numbers are modelled in fixed point:               *)
(*   - lengths (position, velocity, size) in 1/Scale of a pixel, every     *)
(*     product rounded to the nearest unit (Round);                        *)
(*   - the ship's rotation in units of ROTATION_SPEED = 0.1 rad, so that   *)
(*     one key-held frame of deltaTime 1 turns the ship by 1; cos and sin  *)
(*     are tabulated per 0.1 rad, times 1000 (Cos1000, Sin1000);           *)
(*   - an asteroid's rotation in units of its per-tick increment 0.02 rad. *)
(* The remainder operator is JavaScript's (sign of the dividend), JsMod.   *)
(*                                                                         *)
(* Objects.  updateGameObjects and handleCollisions mutate the objects of  *)
(* the state they are given.  The only alias that outlives a handler is    *)
(* the gameState captured by the registered keydown handler (the closure   *)
(* of the keyboard effect); it is modelled by the variable handler.        *)
(* An asteroid's vertices only feed drawGame and are left out.             *)
(***************************************************************************)
EXTENDS Integers, Sequences, FiniteSets

VARIABLES
    gameState,     \* useState<GameState>: ship, asteroids, bullets, score, lives, gameOver
    keysRef,       \* keysRef.current: the set of held keys
    canShoot,      \* useState(true): the cooldown flag
    timers,        \* number of pending setTimeout(() => setCanShoot(true), 250)
    handler,       \* the registered handleKeyDown: what its closure captured
    updatedState,  \* the local updatedState of the game-loop callback, while
                   \* that callback is the handler that ran last
    ticks,         \* number of game-loop callbacks run so far
    inputs         \* number of user inputs (key down, key up, Play Again) so far

vars == <<gameState, keysRef, canShoot, timers, handler, updatedState, ticks, inputs>>

---------------------------------------------------------------------------
(* Bounds of the model *)

\* game-loop callbacks explored
MaxTicks == 4
\* user inputs explored
MaxInputs == 2
\* pure-function inputs: positions range over -MaxWraps..MaxWraps+1 arena sizes
MaxWraps == 2
\* consecutive updateGameObjects calls followed for one bullet collection
MaxCalls == 61
\* lifespans, from 1 up, of the short-lived bullet of those collections
MaxLife == 3

---------------------------------------------------------------------------
(* Numbers *)

Scale == 100

Px(n) == n * Scale

Abs(n) == IF n < 0 THEN -n ELSE n

\* n / d rounded to the nearest integer (d > 0)
Round(n, d) == (2 * n + d) \div (2 * d)

\* JavaScript a % b for b > 0: the result has the sign of a
JsMod(a, b) == IF a >= 0 THEN a % b ELSE -((-a) % b)

RECURSIVE SqrtBetween(_, _, _)
SqrtBetween(n, lo, hi) ==
    IF lo >= hi THEN lo
    ELSE LET mid == (lo + hi + 1) \div 2
         IN  IF mid * mid <= n THEN SqrtBetween(n, mid, hi)
                               ELSE SqrtBetween(n, lo, mid - 1)

\* Math.sqrt, rounded down (n < 2^31)
Sqrt(n) == SqrtBetween(n, 0, 46340)

CosTable == <<1000, 995, 980, 955, 921, 878, 825, 765, 697, 622, 540, 454,
              362, 267, 170, 71, -29, -129, -227, -323, -416, -505, -589,
              -666, -737, -801, -857, -904, -942, -971, -990, -999>>

SinTable == <<0, 100, 199, 296, 389, 479, 565, 644, 717, 783, 841, 891,
              932, 964, 985, 997, 1000, 992, 974, 946, 909, 863, 808,
              746, 675, 598, 516, 427, 335, 239, 141, 42>>

\* 1000 * Math.cos(0.1 * r), |r| <= 31
Cos1000(r) == CosTable[Abs(r) + 1]

\* 1000 * Math.sin(0.1 * r), |r| <= 31
Sin1000(r) == IF r < 0 THEN -SinTable[-r + 1] ELSE SinTable[r + 1]

---------------------------------------------------------------------------
(* Constants of Game *)

INITIAL_ASTEROIDS == 5
INITIAL_LIVES == 3
CANVAS_WIDTH == Px(800)
CANVAS_HEIGHT == Px(600)
\* 0.1 rad per frame: the unit of the ship's rotation
ROTATION_SPEED == 1

\* The keys pressed: any e.key is recorded, these are the ones the code reads
Keys == {"ArrowLeft", "ArrowRight", "ArrowUp", " "}

\* deltaTime of a game-loop callback, in whole 60 FPS frames
DeltaTimes == {1}

Point(x, y) == [x |-> x, y |-> y]

---------------------------------------------------------------------------
(* Entity factory *)

createShip(x, y) ==
    [position |-> Point(x, y), velocity |-> Point(0, 0), rotation |-> 0,
     size |-> Px(20), thrusting |-> FALSE]

\* The values createAsteroid can return: size in [20,50), position in the
\* arena, velocity components in [-1,1), any rotation.  Two draws are kept:
\* one drifting over the arena centre (it overlaps a ship at (400,300)), one
\* at rest 40 px to its right (it just touches that ship without overlapping
\* it, and lies in the path of a bullet fired at rotation 0).
asteroidOverCentre ==
    [position |-> Point(Px(400), Px(300)), velocity |-> Point(-50, 25),
     rotation |-> 0, size |-> Px(20)]

asteroidBesideCentre ==
    [position |-> Point(Px(440), Px(300)), velocity |-> Point(0, 0),
     rotation |-> 7, size |-> Px(20)]

createAsteroid == {asteroidOverCentre, asteroidBesideCentre}

\* Array.from({ length: n }, () => createAsteroid(w, h)): the n draws, of
\* which three fields are kept: none, the first, or all over the centre
AsteroidField(n) ==
    { [i \in 1..n |-> IF i <= k THEN asteroidOverCentre ELSE asteroidBesideCentre] :
        k \in {0, 1, n} }

---------------------------------------------------------------------------
(* Motion integrator: updateGameObjects *)

thrustPower == 10
friction == 99
maxSpeed == Px(5)

\* Mutant: the dimension is not added before the remainder
wrap_noAdd(p, dimension) == JsMod(p, dimension)

\* (p + dimension) % dimension
wrap(p, dimension) == JsMod(p + dimension, dimension)

\* Mutant: no speed limit
shipVelocity_unclamped(ship) ==
    LET tx == IF ship.thrusting
              THEN ship.velocity.x + Round(Cos1000(ship.rotation) * thrustPower, 1000)
              ELSE ship.velocity.x
        ty == IF ship.thrusting
              THEN ship.velocity.y + Round(Sin1000(ship.rotation) * thrustPower, 1000)
              ELSE ship.velocity.y
    IN  Point(Round(tx * friction, 100), Round(ty * friction, 100))

\* ship.velocity after thrust, friction and the speed limit
shipVelocity(ship) ==
    LET tx == IF ship.thrusting
              THEN ship.velocity.x + Round(Cos1000(ship.rotation) * thrustPower, 1000)
              ELSE ship.velocity.x
        ty == IF ship.thrusting
              THEN ship.velocity.y + Round(Sin1000(ship.rotation) * thrustPower, 1000)
              ELSE ship.velocity.y
        fx == Round(tx * friction, 100)
        fy == Round(ty * friction, 100)
        speed2 == fx * fx + fy * fy
        speed == Sqrt(speed2)
    IN  IF speed2 > maxSpeed * maxSpeed
        THEN Point(Round(fx * maxSpeed, speed), Round(fy * maxSpeed, speed))
        ELSE Point(fx, fy)

updateShip(ship, width, height) ==
    LET v == shipVelocity(ship)
    IN  [ship EXCEPT !.velocity = v,
                     !.position = Point(wrap(ship.position.x + v.x, width),
                                        wrap(ship.position.y + v.y, height))]

\* Mutant: asteroids do not wrap
updateAsteroid_noWrap(asteroid, width, height) ==
    [asteroid EXCEPT
        !.position = Point(asteroid.position.x + asteroid.velocity.x,
                           asteroid.position.y + asteroid.velocity.y),
        !.rotation = asteroid.rotation + 1]

updateAsteroid(asteroid, width, height) ==
    [asteroid EXCEPT
        !.position = Point(wrap(asteroid.position.x + asteroid.velocity.x, width),
                           wrap(asteroid.position.y + asteroid.velocity.y, height)),
        !.rotation = asteroid.rotation + 1]

\* Mutant: the lifespan is not decremented
updateBullet_noDecrement(bullet, width, height) ==
    [bullet EXCEPT
        !.position = Point(wrap(bullet.position.x + bullet.velocity.x, width),
                           wrap(bullet.position.y + bullet.velocity.y, height))]

updateBullet(bullet, width, height) ==
    [bullet EXCEPT
        !.position = Point(wrap(bullet.position.x + bullet.velocity.x, width),
                           wrap(bullet.position.y + bullet.velocity.y, height)),
        !.lifespan = bullet.lifespan - 1]

\* Mutant: a bullet is dropped one tick late
isAlive_keepZero(bullet) == bullet.lifespan >= 0

\* .filter(bullet => bullet.lifespan > 0)
isAlive(bullet) == bullet.lifespan > 0

updateGameObjects(state, width, height) ==
    [state EXCEPT
        !.ship = updateShip(state.ship, width, height),
        !.asteroids = [i \in 1..Len(state.asteroids) |->
                          updateAsteroid(state.asteroids[i], width, height)],
        !.bullets = SelectSeq([j \in 1..Len(state.bullets) |->
                                  updateBullet(state.bullets[j], width, height)],
                              isAlive)]

---------------------------------------------------------------------------
(* Collision resolver: checkCollision, handleCollisions *)

\* Mutant: touching objects collide
checkCollision_inclusive(obj1, asteroid) ==
    LET dx == obj1.position.x - asteroid.position.x
        dy == obj1.position.y - asteroid.position.y
        reach == obj1.size + asteroid.size
    IN  /\ Abs(dx) <= reach
        /\ Abs(dy) <= reach
        /\ dx * dx + dy * dy <= reach * reach

\* sqrt(dx^2 + dy^2) < obj1.size + asteroid.size, compared on the squares
\* (the two tests on |dx| and |dy| keep the squares small)
checkCollision(obj1, asteroid) ==
    LET dx == obj1.position.x - asteroid.position.x
        dy == obj1.position.y - asteroid.position.y
        reach == obj1.size + asteroid.size
    IN  /\ Abs(dx) < reach
        /\ Abs(dy) < reach
        /\ dx * dx + dy * dy < reach * reach

\* asteroids.some(asteroid => checkCollision(ship, asteroid))
hasCollision(ship, asteroids) ==
    \E i \in 1..Len(asteroids) : checkCollision(ship, asteroids[i])

\* bullets.some(bullet => checkCollision(bullet, asteroid))
hitByBullet(bullets, asteroid) ==
    \E j \in 1..Len(bullets) : checkCollision(bullets[j], asteroid)

\* asteroids.filter(asteroid => !hitByBullet)
remainingAsteroids(asteroids, bullets) ==
    LET survives(asteroid) == ~hitByBullet(bullets, asteroid)
    IN  SelectSeq(asteroids, survives)

\* Mutant: 100 for every overlapping pair of a bullet and an asteroid
scoreAfter_perBullet(score, asteroids, bullets) ==
    score + 100 * Cardinality({<<i, j>> \in (1..Len(asteroids)) \X (1..Len(bullets)) :
                                  checkCollision(bullets[j], asteroids[i])})

\* newScore after the filter: 100 more for each asteroid it drops
RECURSIVE scoreAfter(_, _, _)
scoreAfter(score, asteroids, bullets) ==
    IF asteroids = <<>> THEN score
    ELSE scoreAfter(IF hitByBullet(bullets, Head(asteroids)) THEN score + 100 ELSE score,
                    Tail(asteroids), bullets)

\* newLives after the ship check
livesAfter(lives, collided) == IF collided THEN lives - 1 ELSE lives

\* Mutant: the ship is reset on every collision
shipAfter_alwaysReset(ship, collided, newLives) ==
    IF collided
    THEN [ship EXCEPT !.position = Point(Px(400), Px(300)),
                      !.velocity = Point(0, 0),
                      !.rotation = 0]
    ELSE ship

\* the ship after the ship check: reset unless the last life was lost
shipAfter(ship, collided, newLives) ==
    IF collided /\ ~(newLives <= 0)
    THEN [ship EXCEPT !.position = Point(Px(400), Px(300)),
                      !.velocity = Point(0, 0),
                      !.rotation = 0]
    ELSE ship

\* Mutant: game over on any collision
gameOverAfter_anyCollision(collided, newLives) == collided

\* Mutant: game over only below zero lives
gameOverAfter_belowZero(collided, newLives) == collided /\ newLives < 0

\* let gameOver = false; ... if (newLives <= 0) gameOver = true
gameOverAfter(collided, newLives) == collided /\ newLives <= 0

\* Mutant: no refill
asteroidsAfter_noRefill(remaining, fresh) == remaining

\* asteroids of the returned state: the refill when none remains
asteroidsAfter(remaining, fresh) == IF Len(remaining) = 0 THEN fresh ELSE remaining

\* Mutant: the ship is checked against the asteroids the bullets have left
resolved_bulletsFirst(state, fresh) ==
    LET remaining == remainingAsteroids(state.asteroids, state.bullets)
        collided == hasCollision(state.ship, remaining)
        newLives == livesAfter(state.lives, collided)
    IN  [state EXCEPT
            !.ship = shipAfter(state.ship, collided, newLives),
            !.asteroids = asteroidsAfter(remaining, fresh),
            !.score = scoreAfter(state.score, state.asteroids, state.bullets),
            !.lives = newLives,
            !.gameOver = gameOverAfter(collided, newLives)]

\* The state handleCollisions returns but for the bullets
resolved(state, fresh) ==
    LET collided == hasCollision(state.ship, state.asteroids)
        newLives == livesAfter(state.lives, collided)
        remaining == remainingAsteroids(state.asteroids, state.bullets)
    IN  [state EXCEPT
            !.ship = shipAfter(state.ship, collided, newLives),
            !.asteroids = asteroidsAfter(remaining, fresh),
            !.score = scoreAfter(state.score, state.asteroids, state.bullets),
            !.lives = newLives,
            !.gameOver = gameOverAfter(collided, newLives)]

\* Mutant: losing a life loses the score
handleCollisions_scoreLost(state, fresh) ==
    [resolved(state, fresh) EXCEPT
        !.score = IF hasCollision(state.ship, state.asteroids) THEN 0 ELSE @]

\* Mutant: a bullet that hits an asteroid is removed
handleCollisions_consuming(state, fresh) ==
    LET misses(bullet) == \A i \in 1..Len(state.asteroids) :
                              ~checkCollision(bullet, state.asteroids[i])
    IN  [resolved(state, fresh) EXCEPT !.bullets = SelectSeq(state.bullets, misses)]

\* Mutant: the bullets are cleared when the ship is hit
handleCollisions_clearing(state, fresh) ==
    [resolved(state, fresh) EXCEPT
        !.bullets = IF hasCollision(state.ship, state.asteroids) THEN <<>> ELSE @]

\* fresh: the five createAsteroid(800, 600) results of the refill.
\* ...state: bullets (like every field not named) pass through
handleCollisions(state, fresh) == resolved(state, fresh)

---------------------------------------------------------------------------
(* Game: state, keyboard effect, shoot, game loop, restart *)

\* The argument of useState<GameState> and of handleRestart's setGameState
\* Mutant: a fresh game starts one life short
initialState_twoLives(fresh) ==
    [ship |-> createShip(CANVAS_WIDTH \div 2, CANVAS_HEIGHT \div 2),
     asteroids |-> fresh,
     bullets |-> <<>>,
     score |-> 0,
     lives |-> INITIAL_LIVES - 1,
     gameOver |-> FALSE]

initialState(fresh) ==
    [ship |-> createShip(CANVAS_WIDTH \div 2, CANVAS_HEIGHT \div 2),
     asteroids |-> fresh,
     bullets |-> <<>>,
     score |-> 0,
     lives |-> INITIAL_LIVES,
     gameOver |-> FALSE]

\* What the handleKeyDown registered by a run of the keyboard effect reads
\* through its closure: canShoot and gameState of the render that ran the
\* effect.  gameState.ship.rotation is a number, fixed at that render;
\* gameState.ship.position is an object, shared with the current ship
\* (posLive) until handleCollisions or handleRestart gives the ship a new one.
capture(state, shootable) ==
    [canShoot |-> shootable,
     gameOver |-> state.gameOver,
     rotation |-> state.ship.rotation,
     position |-> state.ship.position,
     posLive |-> TRUE]

\* The bullet shoot() builds from the ship it reads
newBullet(position, rotation) ==
    [position |-> position,
     velocity |-> Point(Round(Cos1000(rotation) * 7 * Scale, 1000),
                        Round(Sin1000(rotation) * 7 * Scale, 1000)),
     rotation |-> 0,
     size |-> Px(2),
     lifespan |-> 60]

\* shoot(), called by the registered handler: gameState is the handler's
shoot(state, h) ==
    IF h.gameOver THEN state
    ELSE [state EXCEPT !.bullets = Append(@, newBullet(h.position, h.rotation))]

\* e.key === ' ' && canShoot && !gameState.gameOver, read by the handler
fires(k, h) == k = " " /\ h.canShoot /\ ~h.gameOver

\* newShip of the game-loop callback
rotatedShip(ship, held, deltaTime) ==
    LET left == IF "ArrowLeft" \in held
                THEN ship.rotation - ROTATION_SPEED * deltaTime ELSE ship.rotation
        right == IF "ArrowRight" \in held
                 THEN left + ROTATION_SPEED * deltaTime ELSE left
    IN  [ship EXCEPT !.rotation = right, !.thrusting = "ArrowUp" \in held]

\* Mutant: collisions are resolved on every tick
finalState_alwaysResolve(prevState, updated, fresh) == handleCollisions(updated, fresh)

\* prevState.gameOver ? updatedState : handleCollisions(updatedState)
finalState(prevState, updated, fresh) ==
    IF prevState.gameOver THEN updated ELSE handleCollisions(updated, fresh)

\* The position object the handler holds follows the ship's while shared;
\* handleCollisions' ship reset leaves it behind at its last value.
handlerAfterTick(h, updated, final) ==
    IF h.posLive
    THEN [h EXCEPT !.position = updated.ship.position,
                   !.posLive = ~(/\ ~updated.gameOver
                                 /\ hasCollision(updated.ship, updated.asteroids)
                                 /\ final.lives > 0)]
    ELSE h

\* updatedState outside the game-loop callback, and inside it
NoCall == [called |-> FALSE]
Called(state) == [called |-> TRUE, state |-> state]

Init ==
    /\ \E fresh \in AsteroidField(INITIAL_ASTEROIDS) :
          gameState = initialState(fresh)
    /\ updatedState = NoCall
    /\ keysRef = {}
    /\ canShoot = TRUE
    /\ timers = 0
    /\ handler = capture(gameState, TRUE)
    /\ ticks = 0
    /\ inputs = 0

\* The draws of Array.from({ length: 5 }, () => createAsteroid(800, 600)),
\* made only by a handleCollisions call that leaves no asteroid
refillDraws(prevState, updated) ==
    IF ~prevState.gameOver
       /\ Len(remainingAsteroids(updated.asteroids, updated.bullets)) = 0
    THEN AsteroidField(5)
    ELSE {<<>>}

\* One game-loop callback: the setGameState updater of useGameLoop
Tick ==
    /\ ticks < MaxTicks
    /\ \E deltaTime \in DeltaTimes :
          LET updated == updateGameObjects(
                             [gameState EXCEPT
                                 !.ship = rotatedShip(gameState.ship, keysRef, deltaTime)],
                             CANVAS_WIDTH, CANVAS_HEIGHT)
          IN  \E fresh \in refillDraws(gameState, updated) :
                 LET final == finalState(gameState, updated, fresh)
                 IN  /\ updatedState' = Called(updated)
                     /\ gameState' = final
                     /\ handler' = handlerAfterTick(handler, updated, final)
    /\ ticks' = ticks + 1
    /\ UNCHANGED <<keysRef, canShoot, timers, inputs>>

\* handleKeyDown as registered
KeyDown ==
    \E k \in Keys :
        /\ inputs < MaxInputs
        /\ inputs' = inputs + 1
        /\ keysRef' = keysRef \cup {k}
        /\ gameState' = IF fires(k, handler) THEN shoot(gameState, handler) ELSE gameState
        /\ canShoot' = IF fires(k, handler) THEN FALSE ELSE canShoot
        /\ timers' = IF fires(k, handler) THEN timers + 1 ELSE timers
        /\ updatedState' = NoCall
        /\ UNCHANGED <<handler, ticks>>

\* handleKeyUp
KeyUp ==
    \E k \in keysRef :
        /\ inputs < MaxInputs
        /\ inputs' = inputs + 1
        /\ keysRef' = keysRef \ {k}
        /\ updatedState' = NoCall
        /\ UNCHANGED <<gameState, canShoot, timers, handler, ticks>>

\* () => setCanShoot(true), 250 ms after a shot
Timer ==
    /\ timers > 0
    /\ timers' = timers - 1
    /\ canShoot' = TRUE
    /\ updatedState' = NoCall
    /\ UNCHANGED <<gameState, keysRef, handler, ticks, inputs>>

\* The keyboard effect runs again after a render in which canShoot or
\* gameState.gameOver differs from the render of its last run
Effect ==
    /\ handler.canShoot # canShoot \/ handler.gameOver # gameState.gameOver
    /\ handler' = capture(gameState, canShoot)
    /\ updatedState' = NoCall
    /\ UNCHANGED <<gameState, keysRef, canShoot, timers, ticks, inputs>>

\* handleRestart: the Play Again button, rendered while gameState.gameOver
Restart ==
    /\ gameState.gameOver
    /\ inputs < MaxInputs
    /\ inputs' = inputs + 1
    /\ \E fresh \in AsteroidField(INITIAL_ASTEROIDS) :
          gameState' = initialState(fresh)
    /\ keysRef' = {}
    /\ handler' = [handler EXCEPT !.posLive = FALSE]
    /\ updatedState' = NoCall
    /\ UNCHANGED <<canShoot, timers, ticks>>

Next == Tick \/ KeyDown \/ KeyUp \/ Timer \/ Effect \/ Restart

Spec == Init /\ [][Next]_vars

---------------------------------------------------------------------------
(* updateGameObjects as a function: one call on each of a set of inputs.   *)
(* gameState holds the argument, updatedState the result.                  *)

\* Positions on and off the arena: the centre and the origin, shifted by
\* whole arena sizes
PreWrapPoints ==
    { Point(k * CANVAS_WIDTH + o * (CANVAS_WIDTH \div 2),
            k * CANVAS_HEIGHT + o * (CANVAS_HEIGHT \div 2)) :
        k \in -MaxWraps..MaxWraps, o \in 0..1 }

ShipVelocities ==
    { Point(0, 0), Point(Px(3), -Px(4)), Point(-Px(30), Px(40)),
      Point(Px(5), Px(1)), Point(Px(300), -Px(300)) }

DriftVelocities == {Point(0, 0), Point(Px(7), -Px(7)), Point(-Px(900), Px(1300))}

ShipDrives == {<<FALSE, 0>>, <<TRUE, 0>>, <<TRUE, -8>>}

InputStates ==
    { [ship |-> [position |-> p, velocity |-> v, rotation |-> d[2],
                 size |-> Px(20), thrusting |-> d[1]],
       asteroids |-> << [position |-> q, velocity |-> w, rotation |-> 0,
                         size |-> Px(20)] >>,
       bullets |-> << [position |-> q, velocity |-> w, rotation |-> 0,
                       size |-> Px(2), lifespan |-> 1],
                      [position |-> q, velocity |-> w, rotation |-> 0,
                       size |-> Px(2), lifespan |-> 60] >>,
       score |-> 0, lives |-> INITIAL_LIVES, gameOver |-> FALSE] :
        p \in PreWrapPoints, v \in ShipVelocities, d \in ShipDrives,
        q \in PreWrapPoints, w \in DriftVelocities }

InitUpdate ==
    /\ gameState \in InputStates
    /\ updatedState = NoCall
    /\ keysRef = {}
    /\ canShoot = TRUE
    /\ timers = 0
    /\ handler = capture(gameState, TRUE)
    /\ ticks = 0
    /\ inputs = 0

UpdateOnce ==
    /\ ticks = 0
    /\ updatedState' = Called(updateGameObjects(gameState, CANVAS_WIDTH, CANVAS_HEIGHT))
    /\ ticks' = 1
    /\ UNCHANGED <<gameState, keysRef, canShoot, timers, handler, inputs>>

NextUpdate == UpdateOnce

SpecUpdate == InitUpdate /\ [][NextUpdate]_vars

---------------------------------------------------------------------------
(* Properties *)

\* The state handleCollisions was given, in a state reached by a game-loop
\* callback that called it
Resolved == updatedState.called /\ ~updatedState.state.gameOver

\* A step of the game loop, of the Play Again button
IsTick == ticks' = ticks + 1
IsRestart ==
    /\ inputs' = inputs + 1
    /\ keysRef' = {}
    /\ gameState' \in {initialState(fresh) : fresh \in AsteroidField(INITIAL_ASTEROIDS)}

\* ship position, velocity, rotation; asteroids' positions and rotations;
\* bullets' positions, lifespans and membership; score and lives
Kinematics(state) ==
    << state.ship.position, state.ship.velocity, state.ship.rotation,
       [i \in 1..Len(state.asteroids) |->
           <<state.asteroids[i].position, state.asteroids[i].rotation>>],
       [j \in 1..Len(state.bullets) |->
           <<state.bullets[j].position, state.bullets[j].lifespan>>],
       state.score, state.lives >>

\* C1 as stated: a tick taken while gameOver is true leaves the ship's
\* position, velocity and rotation, every asteroid's position and rotation,
\* every bullet's position, lifespan and membership, score and lives as
\* they were.
C1_FrozenWhenOver ==
    [][(gameState.gameOver /\ IsTick) => Kinematics(gameState') = Kinematics(gameState)]_vars

\* C1 amended: a tick taken while gameOver is true resolves no collision:
\* score, lives and gameOver are unchanged, no asteroid is removed or
\* refilled and the ship is not reset; the state returned is the
\* integrator's result (motion and bullet expiry go on).
C1_NoResolveWhenOver ==
    [][(gameState.gameOver /\ IsTick) =>
          /\ gameState'.score = gameState.score
          /\ gameState'.lives = gameState.lives
          /\ gameState'.gameOver
          /\ Len(gameState'.asteroids) = Len(gameState.asteroids)
          /\ gameState' = updatedState'.state]_vars

\* Witness C1: a tick was taken while gameOver was true, and an asteroid
\* is no longer where a draw of createAsteroid puts it
C1_TickedWhileOver ==
    /\ updatedState.called
    /\ updatedState.state.gameOver
    /\ gameState.gameOver
    /\ \E i \in 1..Len(gameState.asteroids) :
          \A a \in createAsteroid : gameState.asteroids[i].position # a.position

\* C2: once true, gameOver stays true on every step but handleRestart; it
\* turns from false to true only in a game-loop step whose handleCollisions
\* call saw the ship overlap an asteroid and took lives to 0; a game-loop
\* step from a gameOver state does not resolve collisions.
C2_GameOverOneWay ==
    [][/\ (gameState.gameOver /\ ~gameState'.gameOver) => IsRestart
       /\ (gameState.gameOver /\ IsTick) => gameState' = updatedState'.state
       /\ (~gameState.gameOver /\ gameState'.gameOver) =>
             /\ IsTick
             /\ hasCollision(updatedState'.state.ship, updatedState'.state.asteroids)
             /\ gameState.lives = 1
             /\ gameState'.lives = 0]_vars

\* Witness C2: the state right after the step that ended the game
C2_JustEnded ==
    /\ Resolved
    /\ gameState.gameOver
    /\ gameState.lives = 0

\* C3: lives is never negative, and lives = 0 only with gameOver
C3_LivesFloor ==
    /\ gameState.lives >= 0
    /\ gameState.lives = 0 => gameState.gameOver

\* Witness C3: the last life lost, with ticks still to come
C3_NoLivesLeft ==
    /\ gameState.lives = 0
    /\ gameState.gameOver
    /\ ticks < MaxTicks

\* C4 as stated: a step that appends a bullet appends one at the ship's
\* position of that moment, with velocity 7 times the unit vector of the
\* ship's rotation of that moment, size 2 and lifespan 60.
C4_FiresFromShip ==
    [][Len(gameState'.bullets) = Len(gameState.bullets) + 1 =>
          gameState'.bullets[Len(gameState'.bullets)] =
              newBullet(gameState.ship.position, gameState.ship.rotation)]_vars

\* 0 <= position.x < width and 0 <= position.y < height
InArena(entity) ==
    /\ 0 <= entity.position.x /\ entity.position.x < CANVAS_WIDTH
    /\ 0 <= entity.position.y /\ entity.position.y < CANVAS_HEIGHT

AllInArena(state) ==
    /\ InArena(state.ship)
    /\ \A i \in 1..Len(state.asteroids) : InArena(state.asteroids[i])
    /\ \A j \in 1..Len(state.bullets) : InArena(state.bullets[j])

\* position + velocity is at least -dimension on both axes
PreWrapFrom(position, velocity) ==
    /\ position.x + velocity.x >= -CANVAS_WIDTH
    /\ position.y + velocity.y >= -CANVAS_HEIGHT

\* C5 as stated: after one updateGameObjects call every entity is inside the
\* arena, whatever the positions and velocities before it.
C5_AlwaysInArena == updatedState.called => AllInArena(updatedState.state)

\* C5 amended: after one updateGameObjects call an entity is inside the
\* arena if its pre-wrap coordinates (position plus the velocity added) are
\* at least -width and -height, however large they are.
C5_InArenaFromMinusDimension ==
    updatedState.called =>
        /\ PreWrapFrom(gameState.ship.position, updatedState.state.ship.velocity)
              => InArena(updatedState.state.ship)
        /\ \A i \in 1..Len(gameState.asteroids) :
              PreWrapFrom(gameState.asteroids[i].position, gameState.asteroids[i].velocity)
                 => InArena(updatedState.state.asteroids[i])
        /\ (\A j \in 1..Len(gameState.bullets) :
               PreWrapFrom(gameState.bullets[j].position, gameState.bullets[j].velocity))
              => \A j \in 1..Len(updatedState.state.bullets) :
                    InArena(updatedState.state.bullets[j])

\* Witness C5: a call that wrapped a ship from a negative coordinate and an
\* asteroid and a bullet from beyond twice the arena size into the arena
C5_WrappedIntoArena ==
    /\ updatedState.called
    /\ gameState.ship.position.x = -CANVAS_WIDTH
    /\ gameState.asteroids[1].position.x + gameState.asteroids[1].velocity.x
          > 2 * CANVAS_WIDTH
    /\ Len(updatedState.state.bullets) = 1
    /\ AllInArena(updatedState.state)

\* the bullets of a sequence that overlap some asteroid of another
HittingBullets(bullets, asteroids) ==
    {j \in 1..Len(bullets) : \E i \in 1..Len(asteroids) :
        checkCollision(bullets[j], asteroids[i])}

\* the asteroids of a sequence that overlap some bullet of another
HitAsteroids(asteroids, bullets) ==
    {i \in 1..Len(asteroids) : \E j \in 1..Len(bullets) :
        checkCollision(bullets[j], asteroids[i])}

Range(seq) == {seq[i] : i \in 1..Len(seq)}

\* C6 as stated: a bullet that overlaps an asteroid in a handleCollisions
\* call is not in the bullet collection after it.
C6_HitBulletRemoved ==
    Resolved =>
        \A j \in HittingBullets(updatedState.state.bullets, updatedState.state.asteroids) :
            updatedState.state.bullets[j] \notin Range(gameState.bullets)

\* C6 amended: a tick removes a bullet exactly when its lifespan expires
\* (it was 1 or less before the tick); a bullet that has hit an asteroid
\* is still in the collection after the tick.
C6_RemovedOnlyOnExpiry ==
    [][IsTick =>
          \A j \in 1..Len(gameState.bullets) :
              updateBullet(gameState.bullets[j], CANVAS_WIDTH, CANVAS_HEIGHT)
                     \in Range(gameState'.bullets)
                 <=> gameState.bullets[j].lifespan > 1]_vars

\* Witness C6: a bullet overlapped an asteroid in a handleCollisions call,
\* the asteroid was destroyed and the bullet is still there
C6_BulletOutlivesHit ==
    /\ Resolved
    /\ \E j \in HittingBullets(updatedState.state.bullets, updatedState.state.asteroids) :
          updatedState.state.bullets[j] \in Range(gameState.bullets)
    /\ gameState.score > updatedState.state.score

\* C7: handleCollisions returns the bullets it was given, in the same order.
C7_BulletsPassThrough ==
    Resolved => gameState.bullets = updatedState.state.bullets

\* Witness C7: one bullet destroyed several asteroids in one call and is
\* still in play
C7_OneBulletManyAsteroids ==
    /\ Resolved
    /\ Len(updatedState.state.bullets) = 1
    /\ Cardinality(HitAsteroids(updatedState.state.asteroids, updatedState.state.bullets)) >= 2
    /\ gameState.score >= updatedState.state.score + 200
    /\ Len(gameState.bullets) = 1

\* C8: the asteroid collection is never empty, and a handleCollisions call
\* that destroys every asteroid returns exactly 5.
C8_AsteroidsNeverEmpty ==
    /\ Len(gameState.asteroids) > 0
    /\ (Resolved
        /\ HitAsteroids(updatedState.state.asteroids, updatedState.state.bullets)
              = 1..Len(updatedState.state.asteroids))
          => Len(gameState.asteroids) = 5

\* Witness C8: the last asteroids of a field already thinned out were
\* destroyed, and there are 5 again
C8_Refilled ==
    /\ Resolved
    /\ Len(updatedState.state.asteroids) < 5
    /\ HitAsteroids(updatedState.state.asteroids, updatedState.state.bullets)
          = 1..Len(updatedState.state.asteroids)
    /\ Len(gameState.asteroids) = 5

\* the asteroids the ship of a state overlaps
Overlapping(state) ==
    {i \in 1..Len(state.asteroids) : checkCollision(state.ship, state.asteroids[i])}

Before(S, i) == Cardinality({h \in S : h < i})

\* C10: handleCollisions removes exactly the asteroids that overlap at
\* least one bullet (the others stay, in order; 5 new ones come if none
\* stays) and adds 100 to score for each asteroid removed.
C10_AsteroidResolution ==
    Resolved =>
        LET before == updatedState.state
            hit == HitAsteroids(before.asteroids, before.bullets)
        IN  /\ gameState.score = before.score + 100 * Cardinality(hit)
            /\ IF hit = 1..Len(before.asteroids)
               THEN gameState.asteroids \in AsteroidField(5)
               ELSE /\ Len(gameState.asteroids) = Len(before.asteroids) - Cardinality(hit)
                    /\ \A i \in (1..Len(before.asteroids)) \ hit :
                          gameState.asteroids[i - Before(hit, i)] = before.asteroids[i]

\* Witness C10: an asteroid overlapped by two bullets was removed and
\* counted once, while another asteroid stayed
C10_TwoBulletsOneAsteroid ==
    /\ Resolved
    /\ Len(updatedState.state.bullets) = 2
    /\ HitAsteroids(updatedState.state.asteroids, updatedState.state.bullets) = {1}
    /\ HittingBullets(updatedState.state.bullets, updatedState.state.asteroids) = {1, 2}
    /\ gameState.score = updatedState.state.score + 100
    /\ Len(gameState.asteroids) = Len(updatedState.state.asteroids) - 1

---------------------------------------------------------------------------
(* Bullet expiry: updateGameObjects called tick after tick on a state with *)
(* a bullet about to expire and a bullet just fired.  gameState holds the  *)
(* first argument, updatedState the latest result.                         *)

ExpiryStates ==
    { [ship |-> createShip(CANVAS_WIDTH \div 2, CANVAS_HEIGHT \div 2),
       asteroids |-> <<asteroidBesideCentre>>,
       bullets |-> << [newBullet(Point(Px(400), Px(300)), 0) EXCEPT !.lifespan = life],
                      newBullet(Point(Px(400), Px(300)), 16) >>,
       score |-> 0, lives |-> INITIAL_LIVES, gameOver |-> FALSE] :
        life \in 1..MaxLife }

InitExpiry ==
    /\ gameState \in ExpiryStates
    /\ updatedState = NoCall
    /\ keysRef = {}
    /\ canShoot = TRUE
    /\ timers = 0
    /\ handler = capture(gameState, TRUE)
    /\ ticks = 0
    /\ inputs = 0

\* The state the next call is given
Latest == IF updatedState.called THEN updatedState.state ELSE gameState

UpdateAgain ==
    /\ ticks < MaxCalls
    /\ updatedState' = Called(updateGameObjects(Latest, CANVAS_WIDTH, CANVAS_HEIGHT))
    /\ ticks' = ticks + 1
    /\ UNCHANGED <<gameState, keysRef, canShoot, timers, handler, inputs>>

NextExpiry == UpdateAgain

SpecExpiry == InitExpiry /\ [][NextExpiry]_vars

\* the bullets of a state that fly with a given velocity
Flying(state, velocity) ==
    {i \in 1..Len(state.bullets) : state.bullets[i].velocity = velocity}

\* C11: a bullet that entered with lifespan L is present, with lifespan
\* L - n, after n < L ticks, and absent after L ticks and ever after.
C11_BulletExpiry ==
    \A j \in 1..Len(gameState.bullets) :
        LET entered == gameState.bullets[j]
            now == Flying(Latest, entered.velocity)
        IN  IF ticks < entered.lifespan
            THEN /\ Cardinality(now) = 1
                 /\ \A i \in now : Latest.bullets[i].lifespan = entered.lifespan - ticks
            ELSE now = {}

\* Witness C11: after 60 ticks the bullet that entered with lifespan 60,
\* still there after 59, is gone
C11_GoneAtSixty ==
    /\ ticks = 60
    /\ gameState.bullets[2].lifespan = 60
    /\ Flying(Latest, gameState.bullets[2].velocity) = {}

---------------------------------------------------------------------------
\* a bullet is appended by this step
BulletAppended == Len(gameState'.bullets) = Len(gameState.bullets) + 1

\* C12: a bullet is appended only when the cooldown timer of every earlier
\* shot has fired, so no bullet follows a shot before that shot's timer.
C12_Cooldown == [][BulletAppended => timers = 0]_vars

---------------------------------------------------------------------------
\* gameOver goes from true to false in this step: the Play Again button
Restarted == gameState.gameOver /\ ~gameState'.gameOver

\* C13: handleRestart yields lives 3, score 0, gameOver false, exactly 5
\* asteroids, no bullets and the ship at the centre with zero velocity and
\* rotation, whatever key was held or timer pending; and gameState is
\* changed by nothing but a tick, a shot or a restart, so a callback left
\* over from before the reset (the cooldown timer, the effect) leaves it.
C13_RestartIsFresh ==
    [][ /\ Restarted =>
            /\ gameState'.lives = 3
            /\ gameState'.score = 0
            /\ Len(gameState'.asteroids) = 5
            /\ gameState'.bullets = <<>>
            /\ gameState'.ship.position = Point(Px(400), Px(300))
            /\ gameState'.ship.velocity = Point(0, 0)
            /\ gameState'.ship.rotation = 0
            /\ ~gameState'.ship.thrusting
            /\ keysRef' = {}
        /\ (~IsTick /\ ~BulletAppended /\ ~Restarted) => gameState' = gameState
      ]_vars

\* Witness C13: a fresh game after a restart, with the cooldown timer of a
\* shot of the game before still pending
C13_FreshWithTimerPending ==
    /\ ticks >= 3
    /\ timers > 0
    /\ gameState.bullets = <<>>
    /\ gameState.lives = 3 /\ gameState.score = 0 /\ ~gameState.gameOver
    /\ Len(gameState.asteroids) = 5

---------------------------------------------------------------------------
(* handleCollisions as a function: one call on each of a set of states in  *)
(* which an asteroid lies at chosen distances from the ship and from a     *)
(* bullet.  gameState holds the argument, updatedState the result.         *)

\* offsets of length 0, 22, 32, 40 and 50 px, one unit less and one more,
\* and offsets longer than a reach on the diagonal but shorter on each axis
Offsets ==
    { Point(0, 0),
      Point(1320, 1760), Point(1320, 1759), Point(-1320, 1761),
      Point(1920, -2560), Point(1920, -2559),
      Point(2400, 3200), Point(-2400, 3199), Point(2400, 3201),
      Point(-3000, -4000), Point(3000, 3999), Point(3000, 4001),
      Point(-1600, -1600), Point(3000, -3000) }

AsteroidSizes == {Px(20), Px(30)}

LivesLeft == {1, INITIAL_LIVES}

ResolveStates ==
    { [ship |-> createShip(CANVAS_WIDTH \div 2, CANVAS_HEIGHT \div 2),
       asteroids |-> << [position |-> Point(Px(400) + o.x, Px(300) + o.y),
                         velocity |-> Point(0, 0), rotation |-> 0, size |-> size] >>,
       bullets |-> << newBullet(Point(Px(400) + o.x + b.x, Px(300) + o.y + b.y), 0) >>,
       score |-> 0, lives |-> lives, gameOver |-> FALSE] :
        o \in Offsets, b \in Offsets, size \in AsteroidSizes, lives \in LivesLeft }

InitResolve ==
    /\ gameState \in ResolveStates
    /\ updatedState = NoCall
    /\ keysRef = {}
    /\ canShoot = TRUE
    /\ timers = 0
    /\ handler = capture(gameState, TRUE)
    /\ ticks = 0
    /\ inputs = 0

ResolveOnce ==
    /\ ticks = 0
    /\ \E fresh \in AsteroidField(INITIAL_ASTEROIDS) :
          updatedState' = Called(handleCollisions(gameState, fresh))
    /\ ticks' = 1
    /\ UNCHANGED <<gameState, keysRef, canShoot, timers, handler, inputs>>

NextResolve == ResolveOnce

SpecResolve == InitResolve /\ [][NextResolve]_vars

\* the square of the distance between two objects' positions
Distance2(a, b) ==
    (a.position.x - b.position.x) * (a.position.x - b.position.x)
    + (a.position.y - b.position.y) * (a.position.y - b.position.y)

\* the square of the sum of two objects' sizes
Reach2(a, b) == (a.size + b.size) * (a.size + b.size)

\* C14: checkCollision holds exactly when the distance between the two
\* positions is strictly less than the sum of the sizes; at a distance equal
\* to that sum it does not.  Seen through both of its callers: the ship
\* loses a life exactly when it is that close to the asteroid, and the
\* asteroid scores exactly when the bullet is.
C14_StrictlyCloser ==
    updatedState.called =>
        LET ship == gameState.ship
            asteroid == gameState.asteroids[1]
            bullet == gameState.bullets[1]
            result == updatedState.state
        IN  /\ checkCollision(ship, asteroid) <=> Distance2(ship, asteroid) < Reach2(ship, asteroid)
            /\ checkCollision(bullet, asteroid) <=> Distance2(bullet, asteroid) < Reach2(bullet, asteroid)
            /\ result.lives = gameState.lives - 1 <=> Distance2(ship, asteroid) < Reach2(ship, asteroid)
            /\ result.lives = gameState.lives <=> Distance2(ship, asteroid) >= Reach2(ship, asteroid)
            /\ result.score = gameState.score + 100 <=> Distance2(bullet, asteroid) < Reach2(bullet, asteroid)
            /\ result.score = gameState.score <=> Distance2(bullet, asteroid) >= Reach2(bullet, asteroid)

\* Witness C14: the asteroid touches the ship (distance = sum of sizes) and
\* no life is lost, while a bullet one unit inside its reach destroys it
C14_TouchingIsNoCollision ==
    /\ updatedState.called
    /\ Distance2(gameState.ship, gameState.asteroids[1])
         = Reach2(gameState.ship, gameState.asteroids[1])
    /\ updatedState.state.lives = gameState.lives
    /\ Distance2(gameState.bullets[1], gameState.asteroids[1])
         < Reach2(gameState.bullets[1], gameState.asteroids[1])
    /\ Distance2(gameState.bullets[1], gameState.asteroids[1]) > 0
    /\ updatedState.state.score = 100

---------------------------------------------------------------------------
\* C15: no step lowers score, except the Play Again button, which sets it
\* to 0: ticks, shots, timers and effect runs leave it or raise it.
C15_ScoreMonotonic ==
    [][ \/ gameState'.score >= gameState.score
        \/ Restarted /\ gameState'.score = 0 ]_vars

\* Witness C15: a tick that takes a life from a ship which has scored, and
\* leaves more score than the tick before it did
C15_ScoredThenHit ==
    /\ Resolved
    /\ updatedState.state.score > 0
    /\ gameState.score > updatedState.state.score
    /\ gameState.lives < updatedState.state.lives

---------------------------------------------------------------------------
\* the square of a velocity's magnitude
Speed2(velocity) == velocity.x * velocity.x + velocity.y * velocity.y

\* C16: after updateGameObjects the ship's speed is at most maxSpeed, up to
\* rounding (here of Sqrt and of the two components to hundredths of a
\* pixel: less than 0.02 px per tick), whatever the velocity, rotation and
\* thrusting flag it was called with.
C16_SpeedLimit ==
    updatedState.called =>
        Speed2(updatedState.state.ship.velocity) <= (maxSpeed + 2) * (maxSpeed + 2)

\* Witness C16: a thrusting ship faster than maxSpeed comes out at maxSpeed
C16_Clamped ==
    /\ updatedState.called
    /\ gameState.ship.thrusting
    /\ Speed2(gameState.ship.velocity) > 4 * maxSpeed * maxSpeed
    /\ Speed2(updatedState.state.ship.velocity) >= (maxSpeed - 2) * (maxSpeed - 2)
    /\ Speed2(updatedState.state.ship.velocity) <= (maxSpeed + 2) * (maxSpeed + 2)

---------------------------------------------------------------------------
(* Late in a game: the game loop from states with a bullet fired up to 59  *)
(* ticks before, a ship cruising across an edge of the arena and asteroids *)
(* where the random draws of a refill can put them.                        *)

\* the ship at rest at the centre, and cruising at 5 px per tick over the
\* bottom right and the top left corner
LateShips ==
    { createShip(CANVAS_WIDTH \div 2, CANVAS_HEIGHT \div 2),
      [createShip(Px(800) - 50, Px(600) - 100) EXCEPT !.velocity = Point(Px(4), Px(3)),
                                                        !.rotation = 6],
      [createShip(100, 50) EXCEPT !.velocity = Point(-Px(4), -Px(3)),
                                  !.rotation = -25] }

\* the bullet with this lifespan left that the cruising ship fired, through
\* the handler registered at mount (rotation 0), 60 - life ticks ago
oldBullet(ship, life) ==
    [newBullet(Point(wrap(ship.position.x + (60 - life) * (Px(7) - ship.velocity.x),
                          CANVAS_WIDTH),
                     wrap(ship.position.y - (60 - life) * ship.velocity.y,
                          CANVAS_HEIGHT)),
               0)
        EXCEPT !.lifespan = life]

\* createAsteroid results: one at rest where the old bullet is when its
\* lifespan reaches 0, one drifting out of the top right corner
asteroidInPath(ship) ==
    [position |-> Point(wrap(oldBullet(ship, 1).position.x + Px(7), CANVAS_WIDTH),
                        oldBullet(ship, 1).position.y),
     velocity |-> Point(0, 0), rotation |-> 0, size |-> Px(20)]

asteroidLeaving ==
    [position |-> Point(Px(800) - 20, 10), velocity |-> Point(90, -90),
     rotation |-> 0, size |-> Px(49)]

LateFields(ship) ==
    { <<asteroidInPath(ship)>>,
      <<asteroidInPath(ship), asteroidLeaving, asteroidOverCentre>> }

\* with the old bullet alone, or with a bullet fired since the last tick
LateStatesOf(ship) ==
    { [ship |-> ship,
       asteroids |-> field,
       bullets |-> <<oldBullet(ship, life)>>
                   \o (IF fired THEN <<newBullet(ship.position, ship.rotation)>> ELSE <<>>),
       score |-> 0, lives |-> lives, gameOver |-> FALSE] :
        life \in 1..MaxLife, fired \in BOOLEAN, lives \in LivesLeft,
        field \in LateFields(ship) }

LateStates == UNION {LateStatesOf(ship) : ship \in LateShips}

InitLate ==
    /\ gameState \in LateStates
    /\ updatedState = NoCall
    /\ keysRef \in SUBSET {"ArrowUp", "ArrowLeft"}
    /\ canShoot = TRUE
    /\ timers = 0
    /\ handler = capture(gameState, TRUE)
    /\ ticks = 0
    /\ inputs = 0

NextLate == Tick

SpecLate == InitLate /\ [][NextLate]_vars

\* an asteroid and a bullet as updateGameObjects moves them
Moved(asteroid) == updateAsteroid(asteroid, CANVAS_WIDTH, CANVAS_HEIGHT)
Flown(bullet) == updateBullet(bullet, CANVAS_WIDTH, CANVAS_HEIGHT)

\* the asteroids that, once moved, overlap a moved bullet with lifespan left
HitByLive(state) ==
    {i \in 1..Len(state.asteroids) :
        \E j \in 1..Len(state.bullets) :
            /\ state.bullets[j].lifespan > 1
            /\ checkCollision(Flown(state.bullets[j]), Moved(state.asteroids[i]))}

\* C17: in a tick the bullets are aged and dropped before collisions are
\* resolved: the state given to the collision check holds no bullet with
\* lifespan <= 0, an asteroid overlapped only by a bullet whose lifespan
\* reaches 0 in this tick stays and scores nothing, and every bullet in the
\* state after the tick has a lifespan from 1 to 59.
C17_AgedBeforeResolved ==
    [][ IsTick =>
          /\ \A j \in 1..Len(updatedState'.state.bullets) :
                updatedState'.state.bullets[j].lifespan >= 1
          /\ \A j \in 1..Len(gameState'.bullets) :
                /\ gameState'.bullets[j].lifespan >= 1
                /\ gameState'.bullets[j].lifespan <= 59
          /\ \A i \in 1..Len(gameState.asteroids) :
                i \notin HitByLive(gameState)
                    => Moved(gameState.asteroids[i]) \in Range(gameState'.asteroids)
          /\ ~gameState.gameOver =>
                gameState'.score = gameState.score + 100 * Cardinality(HitByLive(gameState))
      ]_vars

\* Witness C17: the first tick has dropped the ship's only bullet, whose
\* lifespan was 1, and the asteroid at rest where that bullet would be is
\* still there, unscored
C17_ExpiredOverAsteroid ==
    /\ ticks = 1
    /\ Resolved
    /\ gameState.bullets = <<>>
    /\ gameState.score = 0
    /\ Moved(asteroidInPath(createShip(CANVAS_WIDTH \div 2, CANVAS_HEIGHT \div 2)))
           \in Range(gameState.asteroids)

---------------------------------------------------------------------------
\* C18: the ship is checked against the asteroids as they are before the
\* bullets' hits are removed: an asteroid that overlaps both the ship and a
\* bullet in one handleCollisions call costs the ship a life (the last one
\* ends the game) and is itself destroyed, for 100 points.
C18_HitAndCrashed ==
    updatedState.called =>
        \A i \in 1..Len(gameState.asteroids) :
            (/\ checkCollision(gameState.ship, gameState.asteroids[i])
             /\ hitByBullet(gameState.bullets, gameState.asteroids[i]))
            => /\ updatedState.state.lives = gameState.lives - 1
               /\ updatedState.state.gameOver <=> gameState.lives = 1
               /\ gameState.asteroids[i] \notin Range(updatedState.state.asteroids)
               /\ updatedState.state.score = gameState.score + 100

\* Witness C18: the asteroid a bullet destroys takes the ship's last life
C18_LastLifeAndPoints ==
    /\ updatedState.called
    /\ checkCollision(gameState.ship, gameState.asteroids[1])
    /\ hitByBullet(gameState.bullets, gameState.asteroids[1])
    /\ gameState.lives = 1
    /\ updatedState.state.gameOver
    /\ updatedState.state.score = 100

---------------------------------------------------------------------------
\* C19: while gameOver is true no step adds a bullet: a fire event then
\* leaves the bullet collection as it is.
C19_NoBulletWhenOver ==
    [][gameState.gameOver => Len(gameState'.bullets) <= Len(gameState.bullets)]_vars

---------------------------------------------------------------------------
\* C20: in every state of a game, and so after every tick, the ship, every
\* asteroid and every bullet lie in the arena: 0 <= x < 800, 0 <= y < 600.
\* This holds of what updateGameObjects hands to handleCollisions as well,
\* and so after a ship reset, a refill and for a bullet just fired.
C20_EverythingInArena ==
    /\ AllInArena(gameState)
    /\ updatedState.called => AllInArena(updatedState.state)

\* Witness C20: a tick has taken the ship over the right edge and an
\* asteroid over the right and the top edge, with a bullet in flight
C20_CrossedTheEdge ==
    /\ updatedState.called
    /\ gameState.ship.velocity.x > 0 /\ gameState.ship.position.x < Px(5)
    /\ \E i \in 1..Len(gameState.asteroids) :
          /\ gameState.asteroids[i].velocity = asteroidLeaving.velocity
          /\ gameState.asteroids[i].position.x < Px(1)
          /\ gameState.asteroids[i].position.y > Px(599)
    /\ Len(gameState.bullets) > 0
    /\ AllInArena(gameState)

====
